---- MODULE Spec2Model ----
(***************************************************************************)
(* Model of the task / category HTTP API of todo-list-MERN:                *)
(*   app/api/tasks/route.ts            GET, POST                           *)
(*   app/api/categories/route.ts       GET, POST                           *)
(*   app/api/categories/[id]/route.ts  GET, DELETE                         *)
(*   app/api/tasks/[id]/route.ts       PUT, DELETE (called by TodoForm;    *)
(*                                     modelled from the specification)    *)
(* The handlers are async functions: each runs from one await to the next  *)
(* without interruption, and handlers of other requests run in between.    *)
(* A handler is therefore modelled by the steps between its awaits:        *)
(*   Begin      the request arrives, the handler calls await dbConnect()   *)
(*   Authorize  token check, verifyToken; then await req.json() or the     *)
(*              call of the collection operation                           *)
(*   Parse      body validation, createTask / createCategory, the call of  *)
(*              insertOne                                                  *)
(*   Execute    the database executes the collection operation             *)
(*   Respond    the handler builds its answer from the result              *)
(*   Collect    the client takes the answer                                *)
(* on each of the connections in Procs, in any interleaving.               *)
(* JavaScript values are tagged records so that truthiness, || and && can  *)
(* be computed the way the handlers compute them.                          *)
(* Instants are minutes since 1970-01-01T00:00Z.                           *)
(***************************************************************************)
EXTENDS Integers, Sequences, FiniteSets, TLC

VARIABLES
    tz,           \* server's local time-zone offset, minutes east of UTC
    dbConnected,  \* the lazily opened storage connection (dbConnect)
    tasks,        \* collection "tasks": documents in insertion order
    categories,   \* collection "categories": documents in insertion order
    taskSeq,      \* number of _ids the driver generated for tasks
    catSeq,       \* number of _ids the driver generated for categories
    inflight,     \* per connection: the handler it is running
    created,      \* history: [coll, id, by] of every executed insertOne
    deleted       \* history: [coll, id] of every document removed

vars == <<tz, dbConnected, tasks, categories, taskSeq, catSeq, inflight, created, deleted>>

----------------------------------------------------------------------------
(* Bounds *)

\* at most this many task _ids are generated
MaxTasks == 2
\* at most this many category _ids are generated
MaxCats == 2

----------------------------------------------------------------------------
(* JavaScript values *)

Undefined == [type |-> "undefined"]
Null == [type |-> "null"]
Str(s) == [type |-> "string", str |-> s]
Bool(b) == [type |-> "boolean", bool |-> b]
DateVal(t) == [type |-> "date", time |-> t]
\* the 24 digit hex string of the ObjectId numbered n
IdString(n) == [type |-> "idstring", id |-> n]

\* ToBoolean: undefined, null, "" and false are falsy; a Date object is truthy
Truthy(v) ==
    CASE v.type = "undefined" -> FALSE
      [] v.type = "null" -> FALSE
      [] v.type = "string" -> v.str # ""
      [] v.type = "boolean" -> v.bool
      [] OTHER -> TRUE

\* a || b
JsOr(a, b) == IF Truthy(a) THEN a ELSE b

\* the fields of a document that hold ObjectIds (numbers and user names here)
IdFields == {"_id", "userId"}

\* the document as the driver writes it: a field that is undefined is stored
\* as null (BSON serialization, ignoreUndefined off)
Serialize(doc) ==
    [f \in DOMAIN doc |-> IF f \notin IdFields /\ doc[f] = Undefined THEN Null ELSE doc[f]]

\* the object as NextResponse.json sends it: JSON.stringify leaves out a
\* field that is undefined and keeps one that is null
Json(doc) ==
    [f \in {g \in DOMAIN doc : g \in IdFields \/ doc[g] # Undefined} |-> doc[f]]

----------------------------------------------------------------------------
(* Dates: new Date("YYYY-MM-DD"), Date.prototype.setHours, Date < Date *)

MinutesPerDay == 24 * 60

\* days from 1970-01-01 to the civil date y-m-d (proleptic Gregorian)
DaysFromCivil(y, m, d) ==
    LET yy == IF m <= 2 THEN y - 1 ELSE y
        era == yy \div 400
        yoe == yy - era * 400
        mp == (m + 9) % 12
        doy == (153 * mp + 2) \div 5 + d - 1
        doe == yoe * 365 + yoe \div 4 - yoe \div 100 + doy
    IN era * 146097 + doe - 719468

\* the instant of y-m-d h:mi UTC
UtcInstant(y, m, d, h, mi) == DaysFromCivil(y, m, d) * MinutesPerDay + h * 60 + mi

\* the year, month, day of a date-only ISO string
DateFields(s) ==
    CASE s = "2025-01-10" -> <<2025, 1, 10>>
      [] s = "2025-01-11" -> <<2025, 1, 11>>

\* dueTime.split(":").map(Number)
TimeFields(s) ==
    CASE s = "14:30" -> <<14, 30>>

\* new Date(dueDate) for a date-only ISO string: midnight UTC of that day
NewDate(s) ==
    LET f == DateFields(s) IN DateVal(UtcInstant(f[1], f[2], f[3], 0, 0))

\* the local calendar day (days since 1970-01-01) and minute of day of an instant
LocalDay(t, off) == (t + off) \div MinutesPerDay
LocalMinuteOfDay(t, off) == (t + off) % MinutesPerDay

\* date.setHours(h, mi, 0): the same local calendar day, at h:mi local time
SetHours(date, h, mi, off) ==
    DateVal(LocalDay(date.time, off) * MinutesPerDay + h * 60 + mi - off)

\* the day number of the calendar date named by a date-only string
DayOf(s) == LET f == DateFields(s) IN DaysFromCivil(f[1], f[2], f[3])

----------------------------------------------------------------------------
(* Actors and inputs *)

Users == {"u1", "u2"}

\* the Authorization header after split(" "), or no header at all
NoHeader == [present |-> FALSE]
Header(parts) == [present |-> TRUE, parts |-> parts]

ValidHeaders == {Header(<<"Bearer", "jwt-u1">>), Header(<<"Bearer", "jwt-u2">>)}
MissingTokenHeaders == {NoHeader, Header(<<"Bearer">>), Header(<<"Bearer", "">>)}
InvalidTokenHeaders ==
    {Header(<<"Bearer", "jwt-u1-expired">>), Header(<<"Bearer", "jwt-u2-forged">>),
     Header(<<"Bearer", "not-a-jwt">>)}
\* the headers that carry no token or one that does not verify
BadHeaders == MissingTokenHeaders \cup InvalidTokenHeaders

TZOffsets == {-300, 0, 120}

\* a request: the route, the Authorization header, params.id (0 when the
\* route has no id or the id is not a 24 digit hex string) and the JSON body
\* (undefined when the request has none)
Request(route, header, id, body) ==
    [route |-> route, header |-> header, id |-> id, body |-> body]

IdleReq == Request("none", NoHeader, 0, Undefined)
IdleResp == [status |-> 0]

\* the routes whose handlers are under src/
TaskRoutes == {"GET /api/tasks", "POST /api/tasks"}
CategoryRoutes == {"GET /api/categories", "POST /api/categories"}
IdRoutes == {"GET /api/categories/{id}", "DELETE /api/categories/{id}"}
\* the routes TodoForm calls whose handlers are not under src/
TaskIdRoutes == {"PUT /api/tasks/{id}", "DELETE /api/tasks/{id}"}

\* the collection a route works on
CollOf(route) == IF route \in TaskRoutes \cup TaskIdRoutes THEN "tasks" ELSE "categories"

\* the routes that read a JSON body
BodyRoutes == {"POST /api/tasks", "POST /api/categories", "PUT /api/tasks/{id}"}

\* the instants the clock shows when a task list is answered
ApiNows == {UtcInstant(2025, 1, 10, 12, 0)}

\* params.id: 0 stands for a string that is not a 24 digit hex ObjectId
ParamIds == 0..(MaxCats + 1)

----------------------------------------------------------------------------
(* Collaborators whose code is outside the routes *)

\* lib/auth verifyToken: the decoded payload, or a throw
VerifyToken(token) ==
    CASE token = "jwt-u1" -> [ok |-> TRUE, userId |-> "u1"]
      [] token = "jwt-u2" -> [ok |-> TRUE, userId |-> "u2"]
      [] token = "jwt-u1-expired" -> [ok |-> FALSE, error |-> "jwt expired"]
      [] token = "jwt-u2-forged" -> [ok |-> FALSE, error |-> "invalid signature"]
      [] OTHER -> [ok |-> FALSE, error |-> "jwt malformed"]

\* the priority enumeration of a task
Priorities == {Str("highest"), Str("high"), Str("medium"), Str("low"), Str("lowest")}

\* models/Task createTask rejects (throws on) a supplied priority outside the
\* enumeration
CreateTaskRejects(input) == Truthy(input.priority) /\ input.priority \notin Priorities

\* a createTask that copies its input, with no default
CreateTaskNoDefault(input) == input

\* models/Task createTask: the document to insert; priority defaults to medium
CreateTask(input) == [input EXCEPT !.priority = JsOr(@, Str("medium"))]

\* models/Category createCategory: the document to insert
CreateCategory(input) == input

----------------------------------------------------------------------------
(* Pieces of the handlers *)

\* the first part of the header taken for the token
ExtractSchemeAsToken(hdr) ==
    IF hdr.present /\ Len(hdr.parts) >= 1 THEN Str(hdr.parts[1]) ELSE Undefined

\* req.headers.get("Authorization")?.split(" ")[1]
ExtractToken(hdr) ==
    IF hdr.present /\ Len(hdr.parts) >= 2 THEN Str(hdr.parts[2]) ELSE Undefined

\* only the title checked
MissingTitleOnly(body) == ~Truthy(body.title)

\* if (!title || !resume)
MissingRequired(body) == ~Truthy(body.title) \/ ~Truthy(body.resume)

\* the "Process dueDate and dueTime" block of POST /api/tasks
ProcessDueDate(dueDate, dueTime, off) ==
    IF Truthy(dueDate)
    THEN IF Truthy(dueTime)
         THEN LET hm == TimeFields(dueTime.str)
              IN SetHours(NewDate(dueDate.str), hm[1], hm[2], off)
         ELSE SetHours(NewDate(dueDate.str), 23, 59, off)
    ELSE Undefined

\* the owner named by the body when it names one
OwnerFromBody(decoded, body) ==
    IF "userId" \in DOMAIN body THEN body.userId.str ELSE decoded.userId

\* const userId = new ObjectId(decoded.userId): the owner of a new record
UserId(decoded, body) == decoded.userId

\* the argument of createTask: the six destructured fields and userId
TaskInput(body, decoded, off) ==
    [title |-> body.title,
     resume |-> body.resume,
     description |-> body.description,
     userId |-> UserId(decoded, body),
     dueDate |-> ProcessDueDate(body.dueDate, body.dueTime, off),
     dueTime |-> JsOr(body.dueTime, Undefined),
     priority |-> body.priority]

\* the argument of createCategory
CategoryInput(body, decoded) ==
    [name |-> body.name, description |-> body.description,
     userId |-> UserId(decoded, body)]

\* no name is ever found missing
NameNeverMissing(body) == FALSE

\* !name of the create of a category
MissingName(body) == ~Truthy(body.name)

\* a find without the owner filter
FindAnyUser(coll, userId) == coll

\* collection.find({ userId }).toArray()
FindByUser(coll, userId) == SelectSeq(coll, LAMBDA d : d.userId = userId)

\* a filter on the id alone
MatchesIdOnly(doc, id, userId) == doc._id = id

\* the filter { _id: new ObjectId(params.id), userId }
MatchesIdAndUser(doc, id, userId) == doc._id = id /\ doc.userId = userId

\* the positions of the documents matching the filter
Matching(coll, id, userId) ==
    {i \in 1..Len(coll) : MatchesIdAndUser(coll[i], id, userId)}

\* the document with field f set to v (added when the document has no such field)
WithField(doc, f, v) ==
    [g \in DOMAIN doc \cup {f} |-> IF g = f THEN v ELSE doc[g]]

\* a task counted overdue at its very due instant
OverdueInclusive(task, now) ==
    IF Truthy(task.dueDate) THEN Bool(task.dueDate.time <= now) ELSE task.dueDate

\* task.dueDate && new Date(task.dueDate) < currentDate
Overdue(task, now) ==
    IF Truthy(task.dueDate) THEN Bool(task.dueDate.time < now) ELSE task.dueDate

\* the element of tasksWithOverdueStatus for one stored task
WithOverdueStatus(task, now) == WithField(task, "overdue", Overdue(task, now))

\* tasks.map(task => ({ ...task, overdue, dueDate, dueTime }))
TasksWithOverdueStatus(found, now) ==
    [i \in 1..Len(found) |-> Json(WithOverdueStatus(found[i], now))]

\* { ...newTask, dueDate: newTask.dueDate || null, dueTime: newTask.dueTime || null }
CreatedTask(newTask) ==
    Json([newTask EXCEPT !.dueDate = JsOr(@, Null), !.dueTime = JsOr(@, Null)])

\* a removal that removes nothing
RemoveNothing(s, i) == s

\* the sequence without its i-th element
RemoveAt(s, i) == [j \in 1..(Len(s) - 1) |-> IF j < i THEN s[j] ELSE s[j + 1]]

\* the first position matching the filter
FirstMatch(coll, id, userId) ==
    LET hits == Matching(coll, id, userId)
    IN CHOOSE i \in hits : \A j \in hits : i <= j

\* collection.findOne(filter): the first matching document, or null
FindOne(coll, id, userId) ==
    IF Matching(coll, id, userId) = {} THEN Null ELSE coll[FirstMatch(coll, id, userId)]

\* a deletedCount that reports the acknowledgement, not the count
DeletedCountAcknowledged(coll, id, userId) == 1

\* deleteResult.deletedCount of collection.deleteOne(filter)
DeletedCount(coll, id, userId) == IF Matching(coll, id, userId) = {} THEN 0 ELSE 1

\* the collection after collection.deleteOne(filter): the first match removed
AfterDeleteOne(coll, id, userId) ==
    IF Matching(coll, id, userId) = {} THEN coll
    ELSE RemoveAt(coll, FirstMatch(coll, id, userId))

----------------------------------------------------------------------------
(* app/api/tasks/[id]/route.ts, from the specification (4.3, 5, 7) *)

\* update validates as create is specified to: title and resume non-empty, no
\* time without a date, priority one of the enumeration when supplied
UpdateInvalid(body) ==
    \/ MissingRequired(body)
    \/ Truthy(body.dueTime) /\ ~Truthy(body.dueDate)
    \/ Truthy(body.priority) /\ body.priority \notin Priorities

\* the composed due instant: the supplied date at the supplied local time,
\* 23:59 when no time is supplied; no due instant without a date
ComposeDue(dueDate, dueTime, off) ==
    IF Truthy(dueDate)
    THEN LET hm == IF Truthy(dueTime) THEN TimeFields(dueTime.str) ELSE <<23, 59>>
         IN DateVal(DayOf(dueDate.str) * MinutesPerDay + hm[1] * 60 + hm[2] - off)
    ELSE Null

\* full replace: every field comes from the input, a field not supplied is
\* cleared; the owner is not an input
Replacement(body, off) ==
    [title |-> body.title,
     resume |-> body.resume,
     description |-> body.description,
     categoryId |-> body.categoryId,
     priority |-> JsOr(body.priority, Str("medium")),
     dueDate |-> ComposeDue(body.dueDate, body.dueTime, off),
     dueTime |-> JsOr(body.dueTime, Null)]

\* the stored document after the replace: its _id and owner are kept
Replaced(old, new) ==
    Serialize(WithField(WithField(new, "_id", old._id), "userId", old.userId))

\* the collection after the conditional replace (match on id and owner)
AfterReplaceOne(coll, id, userId, new) ==
    IF Matching(coll, id, userId) = {} THEN coll
    ELSE [coll EXCEPT ![FirstMatch(coll, id, userId)] = Replaced(@, new)]

----------------------------------------------------------------------------
(* Responses *)

NoTokenResponse ==
    [status |-> 401, body |-> [success |-> FALSE, message |-> "No token provided"]]

InternalErrorResponse(err) ==
    [status |-> 500,
     body |-> [success |-> FALSE, message |-> "Internal server error", error |-> err]]

BadRequestResponse(msg) ==
    [status |-> 400, body |-> [success |-> FALSE, message |-> msg]]

CategoryNotFoundResponse ==
    [status |-> 404,
     body |-> [success |-> FALSE,
               message |-> "Category not found or does not belong to the user"]]

CategoryDeletedResponse ==
    [status |-> 200,
     body |-> [success |-> TRUE, message |-> "Category deleted successfully"]]

\* GET /api/categories/{id}: if (!category) 404, else the category
CategoryResponse(category) ==
    IF category = Null
    THEN CategoryNotFoundResponse
    ELSE [status |-> 200, body |-> [success |-> TRUE, category |-> Json(category)]]

\* DELETE /api/categories/{id}: if (deleteResult.deletedCount === 0) 404, else success
DeleteResponse(deletedCount) ==
    IF deletedCount = 0 THEN CategoryNotFoundResponse ELSE CategoryDeletedResponse

\* the task routes with an id, from the specification (6, 7)
UnauthenticatedResponse ==
    [status |-> 401, body |-> [success |-> FALSE, message |-> "Unauthenticated"]]

TaskNotFoundResponse ==
    [status |-> 404, body |-> [success |-> FALSE, message |-> "NotFound"]]

TaskDeletedResponse == [status |-> 200, body |-> [success |-> TRUE]]

TaskUpdatedResponse(task) ==
    IF task = Null
    THEN TaskNotFoundResponse
    ELSE [status |-> 200, body |-> [success |-> TRUE, task |-> Json(task)]]

----------------------------------------------------------------------------
(* Connections *)

\* the connections that carry concurrent requests
Procs == {"p1", "p2"}

\* the collection operation a handler has called and is awaiting
Op(name, coll) == [name |-> name, coll |-> coll]
NoOp == Op("none", "none")

\* what the database hands back: the array of find, the document of findOne
\* or of the replace, the deletedCount
Result(docs, doc, count) == [docs |-> docs, doc |-> doc, count |-> count]
NoResult == Result(<<>>, Null, 0)

\* a connection with no handler running
IdleCall ==
    [pc |-> "idle",
     req |-> IdleReq,
     decoded |-> [ok |-> FALSE, error |-> "none"],   \* verifyToken(token)
     doc |-> Null,          \* newTask / newCategory, with the _id insertOne gives it
     op |-> NoOp,
     result |-> NoResult,
     now |-> 0,             \* currentDate of GET /api/tasks
     resp |-> IdleResp,
     dbOps |-> <<>>,        \* history: the operations executed for the request
     live |-> FALSE,        \* history: params.id was stored when the request arrived
     gone |-> FALSE,        \* history: params.id was deleted when the request arrived
     removed |-> FALSE]     \* history: the operation removed a document

\* the handler returns the response r
Answer(c, r) == [c EXCEPT !.pc = "done", !.resp = r]

\* the handler calls the collection operation and awaits it
Issue(c, op) == [c EXCEPT !.pc = "issued", !.op = op]

\* the collection named name
Coll(name) == IF name = "tasks" THEN tasks ELSE categories

\* the requests of a route that have not yet taken an _id
Pending(route) ==
    Cardinality({q \in Procs : /\ inflight[q].req.route = route
                               /\ inflight[q].pc \in {"connecting", "parsing"}})

\* a create is taken on only while an _id is left for it
Admitted(r) ==
    /\ r.route = "POST /api/tasks" => taskSeq + Pending(r.route) < MaxTasks
    /\ r.route = "POST /api/categories" => catSeq + Pending(r.route) < MaxCats

----------------------------------------------------------------------------
(* Initial state *)

Init ==
    /\ tz \in TZOffsets
    /\ dbConnected = FALSE
    /\ tasks = <<>>
    /\ categories = <<>>
    /\ taskSeq = 0
    /\ catSeq = 0
    /\ inflight = [p \in Procs |-> IdleCall]
    /\ created = {}
    /\ deleted = {}

----------------------------------------------------------------------------
(* The handlers, from await to await *)

\* the request arrives; the handler runs to await dbConnect()
Begin(p, r) ==
    /\ inflight[p].pc = "idle"
    /\ Admitted(r)
    /\ dbConnected' = TRUE
    /\ inflight' = [inflight EXCEPT ![p] =
          [IdleCall EXCEPT
              !.pc = "connecting",
              !.req = r,
              !.live = \E i \in 1..Len(Coll(CollOf(r.route))) :
                           Coll(CollOf(r.route))[i]._id = r.id,
              !.gone = [coll |-> CollOf(r.route), id |-> r.id] \in deleted]]
    /\ UNCHANGED <<tz, tasks, categories, taskSeq, catSeq, created, deleted>>

\* the operation a route without a body calls once the caller is known
OpOf(route) ==
    CASE route = "GET /api/tasks" -> Op("find", "tasks")
      [] route = "GET /api/categories" -> Op("find", "categories")
      [] route = "GET /api/categories/{id}" -> Op("findOne", "categories")
      [] route = "DELETE /api/categories/{id}" -> Op("deleteOne", "categories")
      [] route = "DELETE /api/tasks/{id}" -> Op("deleteOne", "tasks")

\* from dbConnect() resolving to the next await or return: the token check,
\* verifyToken (a throw is caught and answered 500), then await req.json()
\* in the POST handlers, and the collection call in the others, where
\* new ObjectId(params.id) throws on an id that is no ObjectId
AfterConnect(c) ==
    LET token == ExtractToken(c.req.header)
        decoded == VerifyToken(token.str)
        route == c.req.route
        known == [c EXCEPT !.decoded = decoded]
    IN IF ~Truthy(token)
       THEN Answer(c, IF route \in TaskIdRoutes THEN UnauthenticatedResponse
                      ELSE NoTokenResponse)
       ELSE IF ~decoded.ok
       THEN Answer(c, IF route \in TaskIdRoutes THEN UnauthenticatedResponse
                      ELSE InternalErrorResponse(decoded.error))
       ELSE IF route \in BodyRoutes
       THEN [known EXCEPT !.pc = "parsing"]
       ELSE IF route \in IdRoutes /\ c.req.id = 0
       THEN Answer(known, InternalErrorResponse("BSONError"))
       ELSE Issue(known, OpOf(route))

Authorize(p) ==
    /\ inflight[p].pc = "connecting"
    /\ inflight' = [inflight EXCEPT ![p] = AfterConnect(@)]
    /\ UNCHANGED <<tz, dbConnected, tasks, categories, taskSeq, catSeq, created, deleted>>

\* POST /api/tasks from req.json() resolving to await insertOne(newTask);
\* insertOne gives newTask its _id when it is called
ParseTask(p) ==
    LET c == inflight[p]
        input == TaskInput(c.req.body, c.decoded, tz)
        newTask == WithField(CreateTask(input), "_id", taskSeq + 1)
    IN IF MissingRequired(c.req.body)
       THEN /\ inflight' = [inflight EXCEPT ![p] =
                  Answer(c, BadRequestResponse("Title and resume are required"))]
            /\ UNCHANGED taskSeq
       ELSE IF CreateTaskRejects(input)
       THEN /\ inflight' = [inflight EXCEPT ![p] =
                  Answer(c, InternalErrorResponse("ValidationError"))]
            /\ UNCHANGED taskSeq
       ELSE /\ taskSeq < MaxTasks
            /\ taskSeq' = taskSeq + 1
            /\ inflight' = [inflight EXCEPT ![p] =
                  Issue([c EXCEPT !.doc = newTask], Op("insertOne", "tasks"))]

\* POST /api/categories from req.json() resolving to await insertOne(newCategory)
ParseCategory(p) ==
    LET c == inflight[p]
        newCategory == WithField(CreateCategory(CategoryInput(c.req.body, c.decoded)),
                                 "_id", catSeq + 1)
    IN IF MissingName(c.req.body)
       THEN /\ inflight' = [inflight EXCEPT ![p] =
                  Answer(c, BadRequestResponse("Category name is required"))]
            /\ UNCHANGED catSeq
       ELSE /\ catSeq < MaxCats
            /\ catSeq' = catSeq + 1
            /\ inflight' = [inflight EXCEPT ![p] =
                  Issue([c EXCEPT !.doc = newCategory], Op("insertOne", "categories"))]

\* PUT /api/tasks/{id} from the body to the conditional replace
ParseUpdate(p) ==
    LET c == inflight[p]
    IN inflight' = [inflight EXCEPT ![p] =
          IF UpdateInvalid(c.req.body)
          THEN Answer(c, BadRequestResponse("ValidationError"))
          ELSE Issue([c EXCEPT !.doc = Replacement(c.req.body, tz)],
                     Op("replaceOne", "tasks"))]

Parse(p) ==
    /\ inflight[p].pc = "parsing"
    /\ CASE inflight[p].req.route = "POST /api/tasks" ->
                ParseTask(p) /\ UNCHANGED catSeq
         [] inflight[p].req.route = "POST /api/categories" ->
                ParseCategory(p) /\ UNCHANGED taskSeq
         [] inflight[p].req.route = "PUT /api/tasks/{id}" ->
                ParseUpdate(p) /\ UNCHANGED <<taskSeq, catSeq>>
    /\ UNCHANGED <<tz, dbConnected, tasks, categories, created, deleted>>

\* the collection after the database has executed the operation of call c
After(c) ==
    LET coll == Coll(c.op.coll)
    IN CASE c.op.name = "insertOne" -> Append(coll, Serialize(c.doc))
         [] c.op.name = "deleteOne" -> AfterDeleteOne(coll, c.req.id, c.decoded.userId)
         [] c.op.name = "replaceOne" ->
                AfterReplaceOne(coll, c.req.id, c.decoded.userId, c.doc)
         [] OTHER -> coll

\* what the operation of call c resolves to
Resolved(c) ==
    LET coll == Coll(c.op.coll)
    IN CASE c.op.name = "find" -> Result(FindByUser(coll, c.decoded.userId), Null, 0)
         [] c.op.name = "findOne" ->
                Result(<<>>, FindOne(coll, c.req.id, c.decoded.userId), 0)
         [] c.op.name = "deleteOne" ->
                Result(<<>>, Null, DeletedCount(coll, c.req.id, c.decoded.userId))
         [] c.op.name = "replaceOne" ->
                Result(<<>>, FindOne(After(c), c.req.id, c.decoded.userId), 0)
         [] OTHER -> NoResult

\* the database executes the operation a handler awaits, as one step
Execute(p) ==
    /\ inflight[p].pc = "issued"
    /\ LET c == inflight[p]
       IN /\ tasks' = IF c.op.coll = "tasks" THEN After(c) ELSE tasks
          /\ categories' = IF c.op.coll = "categories" THEN After(c) ELSE categories
          /\ created' = IF c.op.name = "insertOne"
                        THEN created \cup {[coll |-> c.op.coll, id |-> c.doc._id,
                                            by |-> c.decoded.userId]}
                        ELSE created
          /\ deleted' = IF c.op.name = "deleteOne" /\ After(c) # Coll(c.op.coll)
                        THEN deleted \cup {[coll |-> c.op.coll, id |-> c.req.id]}
                        ELSE deleted
          /\ inflight' = [inflight EXCEPT ![p] =
                [c EXCEPT !.pc = "settled",
                          !.result = Resolved(c),
                          !.dbOps = Append(@, c.op),
                          !.removed = (c.op.name = "deleteOne"
                                       /\ After(c) # Coll(c.op.coll))]]
    /\ UNCHANGED <<tz, dbConnected, taskSeq, catSeq>>

\* the response a handler builds from the result of its operation; now is
\* what new Date() gives at that moment
Response(c, now) ==
    CASE c.req.route = "GET /api/tasks" ->
            [status |-> 200,
             body |-> [success |-> TRUE,
                       tasks |-> TasksWithOverdueStatus(c.result.docs, now)]]
      [] c.req.route = "POST /api/tasks" ->
            [status |-> 201, body |-> [success |-> TRUE, task |-> CreatedTask(c.doc)]]
      [] c.req.route = "GET /api/categories" ->
            [status |-> 200,
             body |-> [success |-> TRUE,
                       categories |-> [i \in 1..Len(c.result.docs) |-> Json(c.result.docs[i])]]]
      [] c.req.route = "POST /api/categories" ->
            [status |-> 201, body |-> [success |-> TRUE, category |-> Json(c.doc)]]
      [] c.req.route = "GET /api/categories/{id}" -> CategoryResponse(c.result.doc)
      [] c.req.route = "DELETE /api/categories/{id}" -> DeleteResponse(c.result.count)
      [] c.req.route = "DELETE /api/tasks/{id}" ->
            IF c.result.count = 0 THEN TaskNotFoundResponse ELSE TaskDeletedResponse
      [] c.req.route = "PUT /api/tasks/{id}" -> TaskUpdatedResponse(c.result.doc)

\* from the operation resolving to the return of the handler
Respond(p, now) ==
    /\ inflight[p].pc = "settled"
    /\ inflight' = [inflight EXCEPT ![p] =
          [Answer(@, Response(@, now)) EXCEPT
              !.now = IF inflight[p].req.route = "GET /api/tasks" THEN now ELSE 0]]
    /\ UNCHANGED <<tz, dbConnected, tasks, categories, taskSeq, catSeq, created, deleted>>

\* the client takes the answer; the connection is free for the next request
Collect(p) ==
    /\ inflight[p].pc = "done"
    /\ inflight' = [inflight EXCEPT ![p] = IdleCall]
    /\ UNCHANGED <<tz, dbConnected, tasks, categories, taskSeq, catSeq, created, deleted>>

\* the handlers serving the given requests on every connection
Serve(requests, nows) ==
    \/ \E p \in Procs, r \in requests : Begin(p, r)
    \/ \E p \in Procs : Authorize(p)
    \/ \E p \in Procs : Parse(p)
    \/ \E p \in Procs : Execute(p)
    \/ \E p \in Procs, now \in nows : Respond(p, now)
    \/ \E p \in Procs : Collect(p)

----------------------------------------------------------------------------
(* Requests *)

\* the requests of a route without a body
Gets(route, headers, ids) == {Request(route, h, id, Undefined) : h \in headers, id \in ids}

\* the requests of a route with a body
Posts(route, headers, ids, bodies) ==
    {Request(route, h, id, b) : h \in headers, id \in ids, b \in bodies}

TaskBody(title, resume, dueDate, dueTime) ==
    [title |-> title, resume |-> resume, description |-> Undefined,
     categoryId |-> Undefined, priority |-> Undefined,
     dueDate |-> dueDate, dueTime |-> dueTime]

\* {title:"Buy milk", resume:"grocery"}
MilkBody == TaskBody(Str("Buy milk"), Str("grocery"), Undefined, Undefined)

\* every combination of absent, empty and given title and resume; no due date
ApiTaskBodies ==
    {TaskBody(t, r, Undefined, Undefined) :
        t \in {Undefined, Str(""), Str("Buy milk")},
        r \in {Undefined, Str(""), Str("grocery")}}

DueDateInputs == {Undefined, Str(""), Str("2025-01-10")}
DueTimeInputs == {Undefined, Str(""), Str("14:30")}

\* well-formed tasks with every combination of due date and due time
DueTaskBodies ==
    {TaskBody(Str("Buy milk"), Str("grocery"), d, t) :
        d \in DueDateInputs, t \in DueTimeInputs}

\* the clock around every instant a due date is composed to at offset off
DueNows(off) ==
    UNION {{due.time - 1, due.time, due.time + 1} :
             due \in {ProcessDueDate(d, t, off) :
                        d \in DueDateInputs \ {Undefined, Str("")},
                        t \in DueTimeInputs}}

PriorityInputs == {Undefined, Str(""), Str("low"), Str("highest"), Str("urgent")}

\* well-formed tasks with every priority input, no due date
PriorityTaskBodies == {[MilkBody EXCEPT !.priority = p] : p \in PriorityInputs}

\* the payload handleSaveTask builds from a form with title and resume filled
\* in and the category selected or not
FormPayload(categoryId) ==
    [title |-> Str("Buy milk"), resume |-> Str("grocery"), description |-> Str(""),
     categoryId |-> categoryId, priority |-> Str("medium"),
     dueDate |-> Str(""), dueTime |-> Str("")]

\* selectedCategoryId: null, or the id of a category of the list
FormTaskBodies == {FormPayload(c) : c \in {Null} \cup {IdString(n) : n \in 1..MaxCats}}

\* a body that also names an owner
WithOwner(body, u) == WithField(body, "userId", Str(u))

\* {name:"Work"}
WorkBody == [name |-> Str("Work"), description |-> Undefined]

\* the user the bodies name as owner
NamedOwner == "u2"

\* a well-formed task that names an owner
OwnerTaskBodies == {WithOwner(MilkBody, NamedOwner)}

\* a well-formed category that names an owner
OwnerCategoryBodies == {WithOwner(WorkBody, NamedOwner)}

\* the form's payload for an edited task, with an owner named
OwnerUpdateBodies == {WithOwner(FormPayload(Null), NamedOwner)}

\* the caller of the requests about due dates
DueHeaders == {Header(<<"Bearer", "jwt-u1">>)}

\* the caller whose records the other credentials are tried on
RecordHeaders == {Header(<<"Bearer", "jwt-u1">>)}

\* the id of the first record of a collection
FirstIds == {1}

CategoryBodies ==
    {[name |-> n, description |-> Undefined] : n \in {Undefined, Str(""), Str("Work")}}

----------------------------------------------------------------------------
(* Specifications *)

\* a server whose local time is UTC
InitUtc == Init /\ tz = 0

\* every route under src/ called without a credential and with one that
\* does not verify, on records created with one that does
CredentialRequests ==
    Gets("GET /api/tasks", BadHeaders, {0})
    \cup Posts("POST /api/tasks", BadHeaders \cup RecordHeaders, {0}, {MilkBody})
    \cup Gets("GET /api/categories", BadHeaders, {0})
    \cup Posts("POST /api/categories", BadHeaders \cup RecordHeaders, {0}, {WorkBody})
    \cup Gets("GET /api/categories/{id}", BadHeaders, FirstIds)
    \cup Gets("DELETE /api/categories/{id}", BadHeaders, FirstIds)

NextCredentials == Serve(CredentialRequests, ApiNows)
SpecCredentials == InitUtc /\ [][NextCredentials]_vars

\* authenticated callers creating and listing tasks: every combination of
\* title and resume, every priority input
CreateRequests ==
    Gets("GET /api/tasks", ValidHeaders, {0})
    \cup Posts("POST /api/tasks", ValidHeaders, {0}, ApiTaskBodies \cup PriorityTaskBodies)

NextCreate == Serve(CreateRequests, ApiNows)
SpecCreate == InitUtc /\ [][NextCreate]_vars

\* an authenticated caller creating and listing tasks with every due date and
\* due time, in every time zone, the clock around every due instant
DueRequests ==
    Gets("GET /api/tasks", DueHeaders, {0})
    \cup Posts("POST /api/tasks", DueHeaders, {0}, DueTaskBodies)

NextDue == Serve(DueRequests, DueNows(tz))
SpecDue == Init /\ [][NextDue]_vars

\* authenticated callers creating, listing and deleting tasks and categories
ListRequests ==
    Gets("GET /api/tasks", ValidHeaders, {0})
    \cup Posts("POST /api/tasks", ValidHeaders, {0}, {MilkBody})
    \cup Gets("DELETE /api/tasks/{id}", ValidHeaders, FirstIds)
    \cup Gets("GET /api/categories", ValidHeaders, {0})
    \cup Posts("POST /api/categories", ValidHeaders, {0}, {WorkBody})
    \cup Gets("DELETE /api/categories/{id}", ValidHeaders, FirstIds)

NextLists == Serve(ListRequests, ApiNows)
SpecLists == InitUtc /\ [][NextLists]_vars

\* authenticated callers on the category routes, every id
CategoryRequests ==
    Gets("GET /api/categories", ValidHeaders, {0})
    \cup Posts("POST /api/categories", ValidHeaders, {0}, CategoryBodies)
    \cup Gets("GET /api/categories/{id}", ValidHeaders, ParamIds)
    \cup Gets("DELETE /api/categories/{id}", ValidHeaders, ParamIds)

NextCategory == Serve(CategoryRequests, ApiNows)
SpecCategory == InitUtc /\ [][NextCategory]_vars

\* authenticated callers creating categories, tasks from the form's payload
\* that reference them, and deleting the categories
ReferenceRequests ==
    Gets("GET /api/tasks", ValidHeaders, {0})
    \cup Posts("POST /api/tasks", ValidHeaders, {0}, FormTaskBodies)
    \cup Posts("POST /api/categories", ValidHeaders, {0}, {WorkBody})
    \cup Gets("DELETE /api/categories/{id}", ValidHeaders, 1..MaxCats)

NextReference == Serve(ReferenceRequests, ApiNows)
SpecReference == InitUtc /\ [][NextReference]_vars

\* authenticated callers creating records and updating and deleting the first
\* task, with bodies that name an owner
OwnerRequests ==
    Posts("POST /api/tasks", ValidHeaders, {0}, OwnerTaskBodies)
    \cup Posts("PUT /api/tasks/{id}", ValidHeaders, FirstIds, OwnerUpdateBodies)
    \cup Gets("DELETE /api/tasks/{id}", ValidHeaders, FirstIds)
    \cup Posts("POST /api/categories", ValidHeaders, {0}, OwnerCategoryBodies)

NextOwner == Serve(OwnerRequests, ApiNows)
SpecOwner == InitUtc /\ [][NextOwner]_vars

----------------------------------------------------------------------------
(* Vocabulary of the properties *)

\* the elements of a sequence
Range(s) == {s[i] : i \in 1..Len(s)}

\* the user a request with a valid credential is authenticated as
Caller(r) == VerifyToken(r.header.parts[2]).userId

\* the request on connection p was sent with a credential that verifies
Authenticated(p) == inflight[p].req.header \in ValidHeaders

\* the handler on connection p has returned its response to a request of route
Answered(p, route) == inflight[p].pc = "done" /\ inflight[p].req.route = route

\* a step of the handler on connection p
StepOf(p) == inflight'[p] # inflight[p]

\* the step in which the database executes the operation connection p awaits
Executes(p) == inflight[p].pc = "issued" /\ inflight'[p].pc = "settled"

\* the step in which the handler on connection p returns its response
Returns(p) == inflight[p].pc \in {"connecting", "parsing", "settled"} /\ inflight'[p].pc = "done"

\* absent or the empty string
EmptyOrAbsent(v) == v = Undefined \/ v = Str("")

\* the ids of the records of the collection named coll that user u created
\* and that have not been deleted
LiveIdsOf(coll, u) ==
    {c.id : c \in {x \in created : x.coll = coll /\ x.by = u
                                      /\ [coll |-> coll, id |-> x.id] \notin deleted}}

\* a returned task without the derived field
Stored(t) == [f \in DOMAIN t \ {"overdue"} |-> t[f]]

\* the records a list response carries
Listed(resp, route) ==
    IF route = "GET /api/tasks"
    THEN [i \in 1..Len(resp.body.tasks) |-> Stored(resp.body.tasks[i])]
    ELSE resp.body.categories

ListRoutes == {"GET /api/tasks", "GET /api/categories"}

----------------------------------------------------------------------------
(* C1 *)

\* C1: a task list and a category list answered to user U hold exactly the
\* stored records owned by U at the moment the list is read from the store:
\* every record U created that has not been deleted, once each, and no record
\* created by another user; the handler answers 200 with the records read.
C1_ListsAreOwnerScoped ==
    [][\A p \in Procs :
          /\ (Executes(p) /\ inflight[p].op.name = "find")
             => LET u == Caller(inflight[p].req)
                    coll == inflight[p].op.coll
                    docs == inflight'[p].result.docs
                IN /\ Range(docs) = {d \in Range(Coll(coll)) : d.userId = u}
                   /\ {d._id : d \in Range(docs)} = LiveIdsOf(coll, u)
                   /\ Len(docs) = Cardinality(LiveIdsOf(coll, u))
                   /\ tasks' = tasks
                   /\ categories' = categories
          /\ (Returns(p) /\ inflight[p].req.route \in ListRoutes /\ Authenticated(p))
             => /\ inflight'[p].resp.status = 200
                /\ Listed(inflight'[p].resp, inflight[p].req.route) = inflight[p].result.docs
                /\ \A d \in Range(Listed(inflight'[p].resp, inflight[p].req.route)) :
                      [coll |-> CollOf(inflight[p].req.route), id |-> d._id,
                       by |-> Caller(inflight[p].req)] \in created]_vars

\* u1 was answered a task list of one task while a task of u2 is stored, and
\* an empty category list while u2's category is stored and u1's own is deleted
C1_Witness ==
    \E p, q \in Procs :
        /\ Answered(p, "GET /api/tasks")
        /\ Caller(inflight[p].req) = "u1"
        /\ Len(inflight[p].resp.body.tasks) = 1
        /\ \E t \in Range(tasks) : t.userId = "u2"
        /\ Answered(q, "GET /api/categories")
        /\ Caller(inflight[q].req) = "u1"
        /\ inflight[q].resp.body.categories = <<>>
        /\ \E c \in Range(categories) : c.userId = "u2"
        /\ \E x \in created : x.coll = "categories" /\ x.by = "u1"
                              /\ [coll |-> "categories", id |-> x.id] \in deleted

\* a list is read when the store executes the find, not when the handler
\* answers: u1's create of a task is answered 201 and the task is stored while
\* u1's list, read before it, is answered empty
C1_ListReadBeforeCreateAnswered ==
    \E p, q \in Procs :
        /\ Answered(p, "GET /api/tasks")
        /\ Caller(inflight[p].req) = "u1"
        /\ inflight[p].resp.body.tasks = <<>>
        /\ Answered(q, "POST /api/tasks")
        /\ Caller(inflight[q].req) = "u1"
        /\ inflight[q].resp.status = 201
        /\ \E t \in Range(tasks) : t.userId = "u1"

----------------------------------------------------------------------------
(* C2 *)

\* the category routes with an id
CategoryIdOps == {"findOne", "deleteOne"}

\* connection p has an answered get or delete of a category, sent with a valid
\* credential and a well-formed id
CategoryIdAnswered(p) ==
    /\ inflight[p].pc = "done"
    /\ inflight[p].req.route \in IdRoutes
    /\ Authenticated(p)
    /\ inflight[p].req.id # 0

\* every answered get or delete of a category the caller never created was
\* answered 404
ForeignAnsweredNotFound ==
    \A p \in Procs :
        (/\ CategoryIdAnswered(p)
         /\ [coll |-> "categories", id |-> inflight[p].req.id,
             by |-> Caller(inflight[p].req)] \notin created)
        => inflight[p].resp = CategoryNotFoundResponse

\* C2: category get and delete by user B with the id of a category owned by
\* another user find nothing, exactly as for an id that matches no category:
\* the operation leaves the categories as they were and the answer is the
\* one 404 response.
C2_ForeignCategoryIsNotFound ==
    [][/\ ForeignAnsweredNotFound'
       /\ \A p \in Procs :
             /\ (/\ Executes(p)
                 /\ inflight[p].op.coll = "categories"
                 /\ inflight[p].op.name \in CategoryIdOps
                 /\ \A c \in Range(categories) :
                       c._id = inflight[p].req.id => c.userId # Caller(inflight[p].req))
                => /\ inflight'[p].result = NoResult
                   /\ categories' = categories
                   /\ deleted' = deleted
             /\ (/\ Returns(p)
                 /\ inflight[p].req.route \in IdRoutes
                 /\ inflight[p].pc = "settled"
                 /\ inflight[p].result = NoResult)
                => inflight'[p].resp = CategoryNotFoundResponse]_vars

\* u2 asked to delete u1's category, got 404, and the category is still stored
C2_Witness ==
    \E p \in Procs :
        /\ Answered(p, "DELETE /api/categories/{id}")
        /\ Caller(inflight[p].req) = "u2"
        /\ \E c \in Range(categories) : c._id = inflight[p].req.id /\ c.userId = "u1"
        /\ inflight[p].resp = CategoryNotFoundResponse

----------------------------------------------------------------------------
(* C3 *)

\* every answered request without a token was answered 401 and ran no
\* collection operation
MissingAnswered401 ==
    \A p \in Procs :
        (inflight[p].pc = "done" /\ inflight[p].req.header \in MissingTokenHeaders)
        => /\ inflight[p].resp = NoTokenResponse
           /\ inflight[p].dbOps = <<>>

\* C3: on every route a request without a bearer credential is answered 401;
\* no step of its handler calls or runs a collection operation or changes
\* the stored tasks and categories.
C3_MissingCredentialIs401 ==
    [][/\ MissingAnswered401'
       /\ \A p \in Procs :
             (/\ StepOf(p)
              /\ inflight'[p].req # IdleReq
              /\ inflight'[p].req.header \in MissingTokenHeaders)
             => /\ inflight'[p].pc \in {"connecting", "done"}
                /\ inflight'[p].op = NoOp
                /\ inflight'[p].dbOps = <<>>
                /\ tasks' = tasks
                /\ categories' = categories
                /\ taskSeq' = taskSeq
                /\ catSeq' = catSeq]_vars

\* a delete of a stored category, sent with "Bearer" and no token, answered 401
C3_Witness ==
    \E p \in Procs :
        /\ Answered(p, "DELETE /api/categories/{id}")
        /\ inflight[p].req.header = Header(<<"Bearer">>)
        /\ \E c \in Range(categories) : c._id = inflight[p].req.id
        /\ inflight[p].resp.status = 401

----------------------------------------------------------------------------
(* C4 *)

\* C4: a request whose credential is present but fails verification is
\* answered 401, the same outcome as a missing credential, on every route.
C4_InvalidCredentialIs401 ==
    \A p \in Procs :
        (inflight[p].pc = "done" /\ inflight[p].req.header \in InvalidTokenHeaders)
        => inflight[p].resp.status = 401

----------------------------------------------------------------------------
(* C5 *)

\* C5: a task create request with a dueTime and no dueDate is answered 400 and
\* persists nothing, so no stored task has a dueTime without a dueDate.
C5_TimeWithoutDateRejected ==
    /\ \A p \in Procs :
          (/\ Answered(p, "POST /api/tasks")
           /\ ~EmptyOrAbsent(inflight[p].req.body.dueTime)
           /\ EmptyOrAbsent(inflight[p].req.body.dueDate))
          => inflight[p].resp.status = 400
    /\ \A t \in Range(tasks) : Truthy(t.dueTime) => Truthy(t.dueDate)

----------------------------------------------------------------------------
(* C6 *)

\* the request on connection p is an authenticated create of a task with an
\* empty or absent title or resume
LacksRequired(c) ==
    /\ c.req.route = "POST /api/tasks"
    /\ c.req.header \in ValidHeaders
    /\ (EmptyOrAbsent(c.req.body.title) \/ EmptyOrAbsent(c.req.body.resume))

\* C6: an authenticated task create request with an empty or absent title, or
\* an empty or absent resume, is answered 400 before any collection operation
\* is called: no step of its handler changes the stored tasks or takes an id.
C6_RequiredFieldsValidatedFirst ==
    [][\A p \in Procs :
          /\ (StepOf(p) /\ LacksRequired(inflight'[p]))
             => /\ inflight'[p].op = NoOp
                /\ inflight'[p].dbOps = <<>>
                /\ tasks' = tasks
                /\ taskSeq' = taskSeq
          /\ (Returns(p) /\ LacksRequired(inflight[p]))
             => inflight'[p].resp = BadRequestResponse("Title and resume are required")]_vars

\* a create with a title and an empty resume, answered 400 with a task stored
C6_Witness ==
    \E p \in Procs :
        /\ Answered(p, "POST /api/tasks")
        /\ inflight[p].req.body.title = Str("Buy milk")
        /\ inflight[p].req.body.resume = Str("")
        /\ inflight[p].resp.status = 400
        /\ Len(tasks) >= 1

----------------------------------------------------------------------------
(* C7, C8 *)

\* the create of a task on connection p was answered 201
TaskCreated(p) == Answered(p, "POST /api/tasks") /\ inflight[p].resp.status = 201

\* the stored task that the create on connection p inserted
StoredBy(p) == CHOOSE t \in Range(tasks) : t._id = inflight[p].doc._id

\* C7: a task created with a dueDate and no dueTime is stored with a due
\* instant on the supplied calendar date at 23:59 local time.
C7_DefaultTimeOnSuppliedDate ==
    \A p \in Procs :
        (/\ TaskCreated(p)
         /\ Truthy(inflight[p].req.body.dueDate)
         /\ EmptyOrAbsent(inflight[p].req.body.dueTime))
        => /\ StoredBy(p).dueDate.type = "date"
           /\ LocalDay(StoredBy(p).dueDate.time, tz) = DayOf(inflight[p].req.body.dueDate.str)
           /\ LocalMinuteOfDay(StoredBy(p).dueDate.time, tz) = 23 * 60 + 59

\* C8: a task created with dueDate D and dueTime HH:MM is stored with the due
\* instant D at HH:MM, whatever the server's time-zone offset.
C8_DateAndTimeComposed ==
    \A p \in Procs :
        (/\ TaskCreated(p)
         /\ Truthy(inflight[p].req.body.dueDate)
         /\ Truthy(inflight[p].req.body.dueTime))
        => /\ StoredBy(p).dueDate.type = "date"
           /\ LocalDay(StoredBy(p).dueDate.time, tz) = DayOf(inflight[p].req.body.dueDate.str)
           /\ LocalMinuteOfDay(StoredBy(p).dueDate.time, tz)
                 = TimeFields(inflight[p].req.body.dueTime.str)[1] * 60
                   + TimeFields(inflight[p].req.body.dueTime.str)[2]

----------------------------------------------------------------------------
(* C9 *)

\* C9: a task stored without a dueDate is returned by every task list with
\* overdue equal to the boolean false, whatever the clock shows.
C9_NoDueDateNeverOverdue ==
    \A p \in Procs :
        (Answered(p, "GET /api/tasks") /\ inflight[p].resp.status = 200)
        => \A t \in Range(inflight[p].resp.body.tasks) :
              ~Truthy(t.dueDate) => t.overdue = Bool(FALSE)

----------------------------------------------------------------------------
(* C10 *)

\* no stored task carries an overdue field
OverdueNotStored == \A t \in Range(tasks) : "overdue" \notin DOMAIN t

\* C10: a task list answered at time now returns, for every task read with a
\* due instant, overdue = true exactly when that instant < now; a task due on
\* a date with no time is overdue on every list of a later local day; no step
\* of the list writes: the stored tasks are the same after it as before, and
\* no stored task carries an overdue field.
C10_OverdueComputedAtRead ==
    [][/\ OverdueNotStored'
       /\ \A p \in Procs :
             /\ (StepOf(p) /\ inflight'[p].req.route = "GET /api/tasks") => tasks' = tasks
             /\ (Returns(p) /\ inflight[p].req.route = "GET /api/tasks" /\ Authenticated(p))
                => /\ Len(inflight'[p].resp.body.tasks) = Len(inflight[p].result.docs)
                   /\ \A t \in Range(inflight'[p].resp.body.tasks) :
                         Truthy(t.dueDate)
                         => t.overdue = Bool(t.dueDate.time < inflight'[p].now)
                   /\ \A t \in Range(inflight[p].result.docs), d \in DueDateInputs :
                         (/\ Truthy(d)
                          /\ t.dueDate = ProcessDueDate(d, Undefined, tz)
                          /\ ~Truthy(t.dueTime)
                          /\ LocalDay(inflight'[p].now, tz) > DayOf(d.str))
                         => \E r \in Range(inflight'[p].resp.body.tasks) :
                               r._id = t._id /\ r.overdue = Bool(TRUE)]_vars

\* one list returned a task due exactly now as not overdue and an earlier one
\* as overdue
C10_Witness ==
    \E p \in Procs :
        /\ Answered(p, "GET /api/tasks")
        /\ \E t \in Range(inflight[p].resp.body.tasks) :
              Truthy(t.dueDate) /\ t.dueDate.time = inflight[p].now /\ t.overdue = Bool(FALSE)
        /\ \E t \in Range(inflight[p].resp.body.tasks) :
              Truthy(t.dueDate) /\ t.dueDate.time < inflight[p].now /\ t.overdue = Bool(TRUE)

----------------------------------------------------------------------------
(* C11 *)

\* C11: every successful task creation returns and stores a priority that is
\* one of highest, high, medium, low, lowest; it is medium when the request
\* omits priority, and the supplied one otherwise.
C11_PriorityEnumeratedDefaultMedium ==
    \A p \in Procs :
        TaskCreated(p)
        => /\ \E t \in Range(tasks) : t._id = inflight[p].doc._id
           /\ StoredBy(p).priority \in Priorities
           /\ "priority" \in DOMAIN inflight[p].resp.body.task
           /\ inflight[p].resp.body.task.priority = StoredBy(p).priority
           /\ EmptyOrAbsent(inflight[p].req.body.priority)
              => StoredBy(p).priority = Str("medium")
           /\ inflight[p].req.body.priority \in Priorities
              => StoredBy(p).priority = inflight[p].req.body.priority

\* a create that omitted priority, answered 201, after one that supplied low
C11_Witness ==
    \E p \in Procs :
        /\ TaskCreated(p)
        /\ inflight[p].req.body.priority = Undefined
        /\ inflight[p].resp.body.task.priority = Str("medium")
        /\ Len(tasks) = 2
        /\ tasks[1].priority = Str("low")

----------------------------------------------------------------------------
(* C12 *)

\* C12: a task create request whose priority is supplied and is not one of the
\* five values is answered 400 and persists no task.
C12_UnknownPriorityIs400 ==
    \A p \in Procs :
        (/\ Answered(p, "POST /api/tasks")
         /\ Authenticated(p)
         /\ Truthy(inflight[p].req.body.priority)
         /\ inflight[p].req.body.priority \notin Priorities)
        => /\ inflight[p].resp.status = 400
           /\ inflight[p].dbOps = <<>>

----------------------------------------------------------------------------
(* C13 *)

\* the request on connection p was sent by the user who created category id
ByCreator(c) ==
    /\ c.req.header \in ValidHeaders
    /\ [coll |-> "categories", id |-> c.req.id, by |-> Caller(c.req)] \in created

\* a deleted category is stored no more
DeletedIsGone ==
    \A c \in Range(categories) : [coll |-> "categories", id |-> c._id] \notin deleted

\* every answered get or delete by its creator of a category that was deleted
\* when the request arrived was answered 404
LaterAnsweredNotFound ==
    \A p \in Procs :
        (/\ inflight[p].pc = "done"
         /\ inflight[p].req.route \in IdRoutes
         /\ ByCreator(inflight[p])
         /\ inflight[p].gone)
        => inflight[p].resp = CategoryNotFoundResponse

\* C13: a delete by its owner that reports a removed category has removed it:
\* the category is stored no more, for good, so no list and no get read after
\* it returns it; every later delete of it by that user is answered 404,
\* never success or an internal error, and changes nothing stored.
C13_DeleteIsIdempotent ==
    [][/\ DeletedIsGone'
       /\ LaterAnsweredNotFound'
       /\ \A p \in Procs :
             /\ (/\ Executes(p)
                 /\ inflight[p].req.route = "DELETE /api/categories/{id}"
                 /\ inflight'[p].result.count = 1)
                => /\ [coll |-> "categories", id |-> inflight[p].req.id] \in deleted'
                   /\ \A c \in Range(categories') : c._id # inflight[p].req.id
                   /\ Len(categories') = Len(categories) - 1
             /\ (/\ Executes(p)
                 /\ inflight[p].req.route \in IdRoutes
                 /\ [coll |-> "categories", id |-> inflight[p].req.id] \in deleted)
                => /\ inflight'[p].result = NoResult
                   /\ categories' = categories
                   /\ tasks' = tasks
                   /\ deleted' = deleted
             /\ (Executes(p) /\ inflight[p].req.route = "GET /api/categories")
                => \A c \in Range(inflight'[p].result.docs) :
                      [coll |-> "categories", id |-> c._id] \notin deleted
             /\ (/\ Returns(p)
                 /\ inflight[p].req.route = "DELETE /api/categories/{id}"
                 /\ inflight'[p].resp.status = 200)
                => [coll |-> "categories", id |-> inflight[p].req.id] \in deleted]_vars

\* the owner deletes again a category they already deleted and gets 404
C13_Witness ==
    \E p \in Procs :
        /\ Answered(p, "DELETE /api/categories/{id}")
        /\ ByCreator(inflight[p])
        /\ inflight[p].gone
        /\ inflight[p].dbOps = <<Op("deleteOne", "categories")>>
        /\ inflight[p].resp = CategoryNotFoundResponse

----------------------------------------------------------------------------
(* C14 *)

\* C14: a task created with a categoryId stores that categoryId, and no step
\* of a category delete changes a stored task, so a later task list returns
\* the task with the same categoryId.
C14_CategoryIdKeptNoCascade ==
    [][\A p \in Procs :
          /\ (/\ Executes(p)
              /\ inflight[p].req.route = "POST /api/tasks"
              /\ Truthy(inflight[p].req.body.categoryId))
             => /\ "categoryId" \in DOMAIN tasks'[Len(tasks')]
                /\ tasks'[Len(tasks')].categoryId = inflight[p].req.body.categoryId
          /\ (StepOf(p) /\ inflight'[p].req.route = "DELETE /api/categories/{id}")
             => tasks' = tasks
          /\ (Returns(p) /\ inflight[p].req.route = "GET /api/tasks")
             => Listed(inflight'[p].resp, "GET /api/tasks") = inflight[p].result.docs]_vars

----------------------------------------------------------------------------
(* C15 *)

\* the request on connection p is an authenticated create of a category
CreatesCategory(c) ==
    c.req.route = "POST /api/categories" /\ c.req.header \in ValidHeaders

\* C15: an authenticated create of a category with an empty or absent name
\* is answered 400 and no step of it stores anything; with a non-empty name
\* it appends exactly one category, owned by the caller, under an id no
\* category had before, and answers 201 with that category and id; a get by
\* its owner that finds a stored category answers 200 with that category.
C15_CategoryCreateContract ==
    [][\A p \in Procs :
          /\ (/\ StepOf(p)
              /\ CreatesCategory(inflight'[p])
              /\ EmptyOrAbsent(inflight'[p].req.body.name))
             => /\ categories' = categories
                /\ created' = created
                /\ catSeq' = catSeq
                /\ inflight'[p].dbOps = <<>>
          /\ (/\ Returns(p)
              /\ CreatesCategory(inflight[p])
              /\ EmptyOrAbsent(inflight[p].req.body.name))
             => inflight'[p].resp = BadRequestResponse("Category name is required")
          /\ (Executes(p) /\ CreatesCategory(inflight[p]))
             => /\ ~EmptyOrAbsent(inflight[p].req.body.name)
                /\ Len(categories') = Len(categories) + 1
                /\ SubSeq(categories', 1, Len(categories)) = categories
                /\ categories'[Len(categories')].name = inflight[p].req.body.name
                /\ categories'[Len(categories')].userId = Caller(inflight[p].req)
                /\ categories'[Len(categories')]._id = inflight[p].doc._id
                /\ \A x \in created : x.coll = "categories" => x.id # inflight[p].doc._id
          /\ (Returns(p) /\ CreatesCategory(inflight[p]) /\ inflight[p].pc = "settled")
             => /\ inflight'[p].resp.status = 201
                /\ inflight'[p].resp.body.category._id = inflight[p].doc._id
                /\ inflight'[p].resp.body.category.name = inflight[p].req.body.name
                /\ inflight'[p].resp.body.category.userId = Caller(inflight[p].req)
          /\ (/\ Executes(p)
              /\ inflight[p].req.route = "GET /api/categories/{id}")
             => \A c \in Range(categories) :
                   (c._id = inflight[p].req.id /\ c.userId = Caller(inflight[p].req))
                   => inflight'[p].result.doc = c
          /\ (/\ Returns(p)
              /\ inflight[p].req.route = "GET /api/categories/{id}"
              /\ inflight[p].pc = "settled"
              /\ inflight[p].result.doc # Null)
             => inflight'[p].resp =
                   [status |-> 200,
                    body |-> [success |-> TRUE, category |-> inflight[p].result.doc]]]_vars

\* a create of a category was answered 201 and a get of the returned id by
\* the same user was answered 200 with the category of that name
C15_Witness ==
    \E p, q \in Procs :
        /\ Answered(p, "POST /api/categories")
        /\ inflight[p].resp.status = 201
        /\ Answered(q, "GET /api/categories/{id}")
        /\ inflight[q].req.id = inflight[p].resp.body.category._id
        /\ Caller(inflight[q].req) = Caller(inflight[p].req)
        /\ inflight[q].resp.status = 200
        /\ inflight[q].resp.body.category.name = inflight[p].req.body.name

----------------------------------------------------------------------------
(* C16 *)

\* C16: the answer to a successful create of a task without dueDate and
\* dueTime carries dueDate null and dueTime null, priority medium when none
\* was requested, and overdue false.
C16_CreateResponseShape ==
    \A p \in Procs :
        (/\ TaskCreated(p)
         /\ inflight[p].req.body.dueDate = Undefined
         /\ inflight[p].req.body.dueTime = Undefined
         /\ inflight[p].req.body.priority = Undefined)
        => /\ inflight[p].resp.body.task.dueDate = Null
           /\ inflight[p].resp.body.task.dueTime = Null
           /\ inflight[p].resp.body.task.priority = Str("medium")
           /\ "overdue" \in DOMAIN inflight[p].resp.body.task
           /\ inflight[p].resp.body.task.overdue = Bool(FALSE)

----------------------------------------------------------------------------
(* C17 *)

\* every record of the collection has one owner, the authenticated user of
\* the request that created it
OwnedByCreator(coll, name) ==
    \A r \in Range(coll) :
        /\ r.userId \in Users
        /\ \A c \in created :
              (c.coll = name /\ c.id = r._id) <=> (c = [coll |-> name, id |-> r._id, by |-> r.userId])
        /\ [coll |-> name, id |-> r._id, by |-> r.userId] \in created

\* every stored task and category is owned by its creator
AllOwnedByCreator ==
    OwnedByCreator(tasks, "tasks") /\ OwnedByCreator(categories, "categories")

\* the records that are in the collection before and after the step have
\* the same owner
OwnerKept(before, after) ==
    \A r \in Range(before), q \in Range(after) : r._id = q._id => r.userId = q.userId

\* C17: every stored task and category has exactly one owner, the
\* authenticated user of the request that created it; no step, of a create,
\* an update or a delete, changes the owner of an existing record; a create
\* stores the caller as owner whatever owner the body names.
C17_OwnerIsCreatorAndImmutable ==
    [][/\ AllOwnedByCreator'
       /\ OwnerKept(tasks, tasks')
       /\ OwnerKept(categories, categories')
       /\ \A p \in Procs :
             (Executes(p) /\ inflight[p].op.name = "insertOne")
             => LET after == IF inflight[p].op.coll = "tasks" THEN tasks' ELSE categories'
                IN after[Len(after)].userId = Caller(inflight[p].req)]_vars

\* a task was created from a body that names another user as owner and then
\* updated from such a body, and is stored with its creator as owner
C17_Witness ==
    \E p, q \in Procs :
        /\ Answered(p, "POST /api/tasks")
        /\ inflight[p].resp.status = 201
        /\ inflight[p].req.body.userId # Str(Caller(inflight[p].req))
        /\ Answered(q, "PUT /api/tasks/{id}")
        /\ inflight[q].resp.status = 200
        /\ inflight[q].req.id = inflight[p].doc._id
        /\ inflight[q].req.body.userId # Str(Caller(inflight[q].req))
        /\ \E t \in Range(tasks) :
              /\ t._id = inflight[p].doc._id
              /\ t.userId = Caller(inflight[p].req)
              /\ t.description = Str("")

----------------------------------------------------------------------------
(* C18 *)

\* connection p has an answered delete of category id by the user who
\* created it, which arrived while the category was stored
OwnerDeleteDone(p, id) ==
    /\ Answered(p, "DELETE /api/categories/{id}")
    /\ inflight[p].req.id = id
    /\ inflight[p].live
    /\ ByCreator(inflight[p])

\* C18: under every interleaving, two deletes of the same category by its
\* owner that both arrived while it was stored end with exactly one 200 and
\* one 404; a delete, whatever get or delete it races with, answers 200
\* only if its own storage operation removed the category, and at most one
\* delete of a category answers 200.
C18_DeleteCheckAndRemoveAtomic ==
    /\ \A id \in ParamIds :
          (OwnerDeleteDone("p1", id) /\ OwnerDeleteDone("p2", id))
          => \/ inflight["p1"].resp = CategoryDeletedResponse
                /\ inflight["p2"].resp = CategoryNotFoundResponse
             \/ inflight["p1"].resp = CategoryNotFoundResponse
                /\ inflight["p2"].resp = CategoryDeletedResponse
    /\ \A p \in Procs :
          (/\ Answered(p, "DELETE /api/categories/{id}")
           /\ inflight[p].resp.status = 200)
          => /\ inflight[p].removed
             /\ [coll |-> "categories", id |-> inflight[p].req.id] \in deleted
             /\ \A c \in Range(categories) : c._id # inflight[p].req.id
             /\ \A q \in Procs \ {p} :
                   (/\ Answered(q, "DELETE /api/categories/{id}")
                    /\ inflight[q].req.id = inflight[p].req.id)
                   => inflight[q].resp.status # 200

\* two concurrent deletes of a stored category by its owner were answered
C18_Witness ==
    \E id \in ParamIds : OwnerDeleteDone("p1", id) /\ OwnerDeleteDone("p2", id)

\* a delete raced with a get of the same category: the get found it, the
\* delete removed it, and the get is answered 200 with a category that is
\* stored no more
C18_RaceWithGetReached ==
    \E p, q \in Procs :
        /\ Answered(p, "DELETE /api/categories/{id}")
        /\ inflight[p].resp.status = 200
        /\ Answered(q, "GET /api/categories/{id}")
        /\ inflight[q].resp.status = 200
        /\ inflight[q].req.id = inflight[p].req.id

====
